---- MODULE Spec2Model ----
(***************************************************************************)
(* Query routing and response-streaming orchestration of the AgentVerse    *)
(* backend (backend/agents.py): the persona registry, route_to_agent, the  *)
(* agent factory and AgentOrchestrator's blocking and streaming calls.     *)
(*                                                                         *)
(* Text is a sequence of characters; a character is a one-character       *)
(* string, a code point outside ASCII is written "U+XXXX".  Python's None *)
(* is the value None.                                                      *)
(***************************************************************************)
EXTENDS Integers, Sequences, FiniteSets, TLC

VARIABLES
    orchestrator_created, \* _orchestrator is not None
    use_swarm,            \* AgentOrchestrator.use_swarm
    swarm,                \* AgentOrchestrator.swarm: None or the Swarm handle
    agents,               \* AgentOrchestrator.agents: persona id -> built agent
    constructed_with,     \* what the one run of __init__ was given and met
    active,               \* the calls this behaviour may start
    call,                 \* per call: request, position, events produced, result
    rq,                   \* POST /route: the message being routed
    rres,                 \* POST /route: the persona id last returned, or None
    rprev,                \* POST /route: the persona id returned by the call before
    rcount,               \* POST /route: calls made for rq
    _pool,                \* database.py: the module global _pool
    pools,                \* connection pools created and closed so far
    player_presence,      \* table player_presence: user id -> row
    chat_sessions,        \* table chat_sessions: the rows, in insertion order
    task                  \* per coroutine using database.py: position, locals

vars == <<orchestrator_created, use_swarm, swarm, agents, constructed_with,
          active, call, rq, rres, rprev, rcount,
          _pool, pools, player_presence, chat_sessions, task>>

orch_vars == <<orchestrator_created, use_swarm, swarm, agents,
               constructed_with>>
route_vars == <<rq, rres, rprev, rcount>>
db_vars == <<_pool, pools, player_presence, chat_sessions, task>>
app_vars == <<orch_vars, active, call, route_vars>>

None == "<None>"

-----------------------------------------------------------------------------
(* Bounds *)

\* fragments concatenated into one routed message
MaxFrags == 3
\* route calls repeated on one message
MaxRouteCalls == 2

-----------------------------------------------------------------------------
(* Text *)

RECURSIVE Concat(_)
Concat(seqs) ==
    IF seqs = <<>> THEN <<>> ELSE Head(seqs) \o Concat(Tail(seqs))

\* Python: kw in s, for str
Contains(s, kw) ==
    \E i \in 1..(Len(s) - Len(kw) + 1) : SubSeq(s, i, i + Len(kw) - 1) = kw

UPPER_TO_LOWER ==
    ("A" :> "a") @@ ("B" :> "b") @@ ("C" :> "c") @@ ("D" :> "d") @@ ("E" :> "e") @@ ("F" :> "f") @@
    ("G" :> "g") @@ ("H" :> "h") @@ ("I" :> "i") @@ ("J" :> "j") @@ ("K" :> "k") @@ ("L" :> "l") @@
    ("M" :> "m") @@ ("N" :> "n") @@ ("O" :> "o") @@ ("P" :> "p") @@ ("Q" :> "q") @@ ("R" :> "r") @@
    ("S" :> "s") @@ ("T" :> "t") @@ ("U" :> "u") @@ ("V" :> "v") @@ ("W" :> "w") @@ ("X" :> "x") @@
    ("Y" :> "y") @@ ("Z" :> "z")

\* Python: s.lower(), on the ASCII letters
lower(s) ==
    [i \in 1..Len(s) |->
        IF s[i] \in DOMAIN UPPER_TO_LOWER THEN UPPER_TO_LOWER[s[i]] ELSE s[i]]

-----------------------------------------------------------------------------
(* Persona registry and model catalog *)

DEFAULT_MODEL == "mistralai/mistral-nemo"

AI_MODELS ==
    { "mistralai/mistral-nemo", "google/gemini-2.0-flash-lite-001",
      "qwen/qwen-turbo", "openai/gpt-4.1-nano",
      "anthropic/claude-3.5-haiku", "anthropic/claude-sonnet-4" }

AGENT_CONFIGS ==
    ("scout" :> [name |-> <<"S", "c", "o", "u", "t">>,
        emoji |-> <<"U+1F50D">>]) @@
    ("sage" :> [name |-> <<"S", "a", "g", "e">>,
        emoji |-> <<"U+1F9D9">>]) @@
    ("chronicle" :> [name |-> <<"C", "h", "r", "o", "n", "i", "c", "l", "e">>,
        emoji |-> <<"U+270D", "U+FE0F">>]) @@
    ("trends" :> [name |-> <<"T", "r", "e", "n", "d", "s">>,
        emoji |-> <<"U+1F4C8">>]) @@
    ("maven" :> [name |-> <<"M", "a", "v", "e", "n">>,
        emoji |-> <<"U+1F44B">>]) @@
    ("gandalfius" :> [name |-> <<"G", "a", "n", "d", "a", "l", "f", "i", "u", "s">>,
        emoji |-> <<"U+1F9D9", "U+200D", "U+2642", "U+FE0F">>])

AGENT_IDS == DOMAIN AGENT_CONFIGS

-----------------------------------------------------------------------------
(* Router *)

RESEARCH_KEYWORDS ==
    { <<"r", "e", "s", "e", "a", "r", "c", "h">>,
      <<"f", "i", "n", "d">>,
      <<"s", "e", "a", "r", "c", "h">>,
      <<"l", "o", "o", "k", " ", "u", "p">>,
      <<"c", "o", "m", "p", "a", "n", "y">>,
      <<"p", "r", "o", "s", "p", "e", "c", "t">>,
      <<"p", "e", "o", "p", "l", "e">>,
      <<"w", "h", "o", " ", "i", "s">> }

ANALYSIS_KEYWORDS ==
    { <<"a", "n", "a", "l", "y", "z", "e">>,
      <<"c", "o", "m", "p", "a", "r", "e">>,
      <<"v", "e", "r", "s", "u", "s">>,
      <<"v", "s">>,
      <<"s", "t", "r", "a", "t", "e", "g", "y">>,
      <<"r", "e", "c", "o", "m", "m", "e", "n", "d">>,
      <<"s", "h", "o", "u", "l", "d">>,
      <<"p", "r", "o", "s", " ", "a", "n", "d", " ", "c", "o", "n", "s">>,
      <<"e", "v", "a", "l", "u", "a", "t", "e">> }

WRITING_KEYWORDS ==
    { <<"a", "r", "t", "i", "c", "l", "e">>,
      <<"w", "r", "i", "t", "e">>,
      <<"n", "e", "w", "s">>,
      <<"c", "q", "c">>,
      <<"c", "a", "r", "e", " ", "h", "o", "m", "e">>,
      <<"s", "o", "c", "i", "a", "l", " ", "c", "a", "r", "e">>,
      <<"h", "e", "a", "l", "t", "h", "c", "a", "r", "e">>,
      <<"s", "u", "m", "m", "a", "r", "i", "z", "e">>,
      <<"r", "e", "p", "o", "r", "t">> }

TRENDS_KEYWORDS ==
    { <<"t", "r", "e", "n", "d", "i", "n", "g">>,
      <<"t", "h", "i", "s", " ", "w", "e", "e", "k">>,
      <<"b", "r", "e", "a", "k", "i", "n", "g">>,
      <<"k", "e", "y", "w", "o", "r", "d", "s">>,
      <<"b", "u", "z", "z">>,
      <<"w", "h", "a", "t", "'", "s", " ", "h", "a", "p", "p", "e", "n", "i", "n", "g">>,
      <<"c", "u", "r", "r", "e", "n", "t", " ", "e", "v", "e", "n", "t", "s">> }

BUSINESS_KEYWORDS ==
    { <<"f", "r", "e", "e", "l", "a", "n", "c", "e">>,
      <<"f", "r", "e", "e", "l", "a", "n", "c", "i", "n", "g">>,
      <<"p", "r", "i", "c", "i", "n", "g">>,
      <<"r", "a", "t", "e", "s">>,
      <<"r", "a", "t", "e">>,
      <<"c", "l", "i", "e", "n", "t", "s">>,
      <<"c", "l", "i", "e", "n", "t">>,
      <<"p", "r", "o", "p", "o", "s", "a", "l">>,
      <<"s", "c", "o", "p", "e">>,
      <<"s", "c", "o", "p", "e", " ", "c", "r", "e", "e", "p">>,
      <<"h", "o", "u", "r", "l", "y">>,
      <<"v", "a", "l", "u", "e", "-", "b", "a", "s", "e", "d">>,
      <<"c", "o", "n", "t", "r", "a", "c", "t">>,
      <<"c", "h", "a", "r", "g", "e">>,
      <<"b", "u", "s", "i", "n", "e", "s", "s">>,
      <<"e", "n", "t", "r", "e", "l", "a", "n", "c", "e", "r">>,
      <<"r", "a", "i", "s", "e", " ", "r", "a", "t", "e", "s">>,
      <<"b", "u", "d", "g", "e", "t">> }

\* any(kw in query_lower for kw in [...])
any_kw_in(kws, query_lower) == \E kw \in kws : Contains(query_lower, kw)

route_to_agent_analysis_first(query) ==
    LET query_lower == lower(query) IN
    IF any_kw_in(ANALYSIS_KEYWORDS, query_lower) THEN "sage"
    ELSE IF any_kw_in(RESEARCH_KEYWORDS, query_lower) THEN "scout"
    ELSE IF any_kw_in(WRITING_KEYWORDS, query_lower) THEN "chronicle"
    ELSE IF any_kw_in(TRENDS_KEYWORDS, query_lower) THEN "trends"
    ELSE IF any_kw_in(BUSINESS_KEYWORDS, query_lower) THEN "gandalfius"
    ELSE "maven"

route_to_agent_business_to_maven(query) ==
    LET query_lower == lower(query) IN
    IF any_kw_in(RESEARCH_KEYWORDS, query_lower) THEN "scout"
    ELSE IF any_kw_in(ANALYSIS_KEYWORDS, query_lower) THEN "sage"
    ELSE IF any_kw_in(WRITING_KEYWORDS, query_lower) THEN "chronicle"
    ELSE IF any_kw_in(TRENDS_KEYWORDS, query_lower) THEN "trends"
    ELSE "maven"

route_to_agent_sticky(query) ==
    LET query_lower == lower(query) IN
    IF rres # None THEN "maven"
    ELSE IF any_kw_in(RESEARCH_KEYWORDS, query_lower) THEN "scout"
    ELSE IF any_kw_in(ANALYSIS_KEYWORDS, query_lower) THEN "sage"
    ELSE IF any_kw_in(WRITING_KEYWORDS, query_lower) THEN "chronicle"
    ELSE IF any_kw_in(TRENDS_KEYWORDS, query_lower) THEN "trends"
    ELSE IF any_kw_in(BUSINESS_KEYWORDS, query_lower) THEN "gandalfius"
    ELSE "maven"

route_to_agent(query) ==
    LET query_lower == lower(query) IN
    IF any_kw_in(RESEARCH_KEYWORDS, query_lower) THEN "scout"
    ELSE IF any_kw_in(ANALYSIS_KEYWORDS, query_lower) THEN "sage"
    ELSE IF any_kw_in(WRITING_KEYWORDS, query_lower) THEN "chronicle"
    ELSE IF any_kw_in(TRENDS_KEYWORDS, query_lower) THEN "trends"
    ELSE IF any_kw_in(BUSINESS_KEYWORDS, query_lower) THEN "gandalfius"
    ELSE "maven"

-----------------------------------------------------------------------------
(* Messages offered to POST /route: up to MaxFrags fragments, concatenated *)

Fragments ==
    { <<"f", "i", "n", "d">>,
      <<"v", "s">>,
      <<"a", "d">>,
      <<"N", "e", "w", "s">>,
      <<"b", "u", "z", "z">>,
      <<"r", "a", "t", "e">>,
      <<"h", "i">>,
      <<" ">> }

RECURSIVE FragSeqs(_)
FragSeqs(n) ==
    IF n = 0 THEN { <<>> }
    ELSE FragSeqs(n - 1) \cup
         { Append(fs, f) : fs \in FragSeqs(n - 1), f \in Fragments }

RouteQueries == { Concat(fs) : fs \in FragSeqs(MaxFrags) }

-----------------------------------------------------------------------------
(* Fixed texts of agents.py *)

HUDDLE_TEXT ==
    <<"U+1F91D", " ", "*", "T", "e", "a", "m", " ", "h", "u", "d", "d", "l", "e", " ", "i", "n", " ", "p", "r", "o", "g", "r", "e", "s", "s", ".", ".", ".", "*", "\n", "\n">>

CONSULTED_PREFIX ==
    <<"*", "A", "g", "e", "n", "t", "s", " ", "c", "o", "n", "s", "u", "l", "t", "e", "d", ":", " ">>

CONSULTED_SUFFIX ==
    <<"*", "\n", "\n", "-", "-", "-", "\n", "\n">>

CONSULTED_SEP ==
    <<",", " ">>

SWARM_ERROR_PREFIX ==
    <<"I", " ", "e", "n", "c", "o", "u", "n", "t", "e", "r", "e", "d", " ", "a", "n", " ", "e", "r", "r", "o", "r", " ", "p", "r", "o", "c", "e", "s", "s", "i", "n", "g", " ", "y", "o", "u", "r", " ", "r", "e", "q", "u", "e", "s", "t", ":", " ">>

AGENT_ERROR_PREFIX ==
    <<"I", " ", "e", "n", "c", "o", "u", "n", "t", "e", "r", "e", "d", " ", "a", "n", " ", "e", "r", "r", "o", "r", ":", " ">>

NO_AGENT_TEXT ==
    <<"N", "o", " ", "a", "g", "e", "n", "t", " ", "a", "v", "a", "i", "l", "a", "b", "l", "e", " ", "t", "o", " ", "h", "a", "n", "d", "l", "e", " ", "t", "h", "i", "s", " ", "r", "e", "q", "u", "e", "s", "t", ".">>

SWARM_NOT_INIT_TEXT ==
    <<"S", "w", "a", "r", "m", " ", "n", "o", "t", " ", "i", "n", "i", "t", "i", "a", "l", "i", "z", "e", "d", ".">>

-----------------------------------------------------------------------------
(* Bounds of the orchestrator model *)

\* concurrent calls the call table has room for
NumCalls == 2
\* longest response text the swarm engine returns
MaxLen == 101
\* backend events one stream_async call delivers
MaxBackendEvents == 3
NumTasks == 2
MaxPools == 3
MaxChatSessions == 3

CallIds == 1..NumCalls

\* chunk_size = 50  (characters per chunk)
chunk_size == 50

-----------------------------------------------------------------------------
(* Inputs *)

\* query texts: no keyword, a research keyword, "vs" inside a word
OrchQueries ==
    { <<"h", "i">>,
      <<"f", "i", "n", "d", " ", "a", "d">>,
      <<"a", "d", "v", "s">> }

\* preferred_agent: absent, empty, a registered id, an unregistered id
PreferredAgents == { None, "", "sage", "wizard" }

\* model_id: absent, the default, another catalog entry, unknown
ModelIds == { None, DEFAULT_MODEL, "qwen/qwen-turbo", "bogus/model" }

\* str(e) of an exception raised by the model backend or the swarm engine
ExcMessages == { <<>>, <<"b", "o", "o", "m">> }

\* str(result) of a single agent call
AgentTexts == { <<>>, <<" ", "o", "k", "\n">>, <<"o", "k">> }

\* personas whose build may fail on its own; all builds fail without API key
FailCandidates == { "sage", "maven" }
BuiltSets ==
    { AGENT_IDS \ f : f \in SUBSET FailCandidates } \cup { {} }

\* response text of length n; the character depends on the position
TextAlphabet == <<"a", "b", "c", "d", "e", "f", "g">>
TextOfLen(n) == [i \in 1..n |-> TextAlphabet[(i % 7) + 1]]

\* lengths of the final node's text: those around a multiple of chunk_size
SwarmTextLens == { n \in 0..MaxLen : n % chunk_size \in { 0, 1, chunk_size - 1 } }

\* str(result) of a SwarmResult object
SWARM_REPR == <<"S", "w", "a", "r", "m", "R", "e", "s", "u", "l", "t", "(", ")">>

\* node_history of a swarm run
NodeHistories ==
    { <<>>, <<"maven">>, <<"maven", "scout">>, <<"maven", "helper", "sage">> }

\* what self.swarm(swarm_query) does: raises, or returns a result object
SwarmOutcomes ==
    { [raises |-> TRUE, message |-> m] : m \in ExcMessages } \cup
    { [raises |-> FALSE, node_history |-> h, has_result |-> FALSE,
       text |-> <<>>, status |-> s] :
        h \in NodeHistories, s \in { "completed", "failed" } } \cup
    { [raises |-> FALSE, node_history |-> h, has_result |-> TRUE,
       text |-> TextOfLen(n), status |-> s] :
        h \in NodeHistories, n \in SwarmTextLens,
        s \in { "completed", "failed" } }

\* what agent(query) does: raises, or returns a result whose str() is text
AgentOutcomes ==
    { [raises |-> TRUE, message |-> m] : m \in ExcMessages } \cup
    { [raises |-> FALSE, text |-> t] : t \in AgentTexts }

\* events agent.stream_async(query) delivers
BackendEvents ==
    { [data |-> <<"a", "b">>],
      [data |-> <<"c">>, current_tool_use |-> [name |-> "search"]],
      [current_tool_use |-> [name |-> "search"]],
      [current_tool_use |-> [toolUseId |-> "t1"]] }

-----------------------------------------------------------------------------
(* Python helpers *)

WHITESPACE == { " ", "\n", "\t", "\r" }

RECURSIVE lstrip(_)
lstrip(s) ==
    IF s # <<>> /\ Head(s) \in WHITESPACE THEN lstrip(Tail(s)) ELSE s

RECURSIVE rstrip(_)
rstrip(s) ==
    IF s # <<>> /\ s[Len(s)] \in WHITESPACE
    THEN rstrip(SubSeq(s, 1, Len(s) - 1)) ELSE s

\* str.strip()
strip(s) == rstrip(lstrip(s))

\* x or y, for Optional[str]
Falsy(x) == x = None \/ x = ""

Min(a, b) == IF a < b THEN a ELSE b

\* s[i : i + n], i counted from 0
Slice(s, i, n) == SubSeq(s, i + 1, Min(i + n, Len(s)))

-----------------------------------------------------------------------------
(* Agent factory *)

NoAgent == [name |-> None, model |-> None]

get_model_passes_unknown_through(model_id) ==
    IF Falsy(model_id) THEN DEFAULT_MODEL ELSE model_id

\* get_model: the model id the returned OpenAIModel is bound to
get_model(model_id) ==
    LET selected_model == IF Falsy(model_id) THEN DEFAULT_MODEL ELSE model_id
    IN  IF selected_model \notin AI_MODELS THEN DEFAULT_MODEL
        ELSE selected_model

\* create_agent; build_ok: an API key is set and Agent() does not raise
create_agent(agent_type, model_id, build_ok) ==
    IF agent_type \notin AGENT_IDS \/ ~build_ok
    THEN [raised |-> TRUE]
    ELSE [raised |-> FALSE,
          agent |-> [name |-> agent_type, model |-> get_model(model_id)]]

\* self.agents.get(agent_type) or self.agents.get("maven")
cached_agent(agent_type) ==
    IF agent_type \in DOMAIN agents THEN agents[agent_type]
    ELSE IF "maven" \in DOMAIN agents THEN agents["maven"]
    ELSE NoAgent

resolve_agent_type_route_first(query, preferred_agent) ==
    IF route_to_agent(query) # "maven" \/ Falsy(preferred_agent)
    THEN route_to_agent(query) ELSE preferred_agent

\* preferred_agent or route_to_agent(query)
resolve_agent_type(query, preferred_agent) ==
    IF Falsy(preferred_agent) THEN route_to_agent(query) ELSE preferred_agent

\* self.use_swarm and self.swarm is not None
swarm_mode == use_swarm /\ swarm # None

-----------------------------------------------------------------------------
(* AgentOrchestrator: blocking calls *)

\* a value returned to the caller / an exception propagating to the caller
Returned(d) == [raised |-> FALSE] @@ d
Raised(m) == [raised |-> TRUE, message |-> m]

Last(s) == s[Len(s)]

_process_with_swarm_no_catch(query, outcome) ==
    IF swarm = None
    THEN Returned([response |-> SWARM_NOT_INIT_TEXT, agent |-> "maven",
                   handoffs |-> <<>>, status |-> "error"])
    ELSE IF outcome.raises
    THEN Raised(outcome.message)
    ELSE LET agent_history == outcome.node_history
             final_agent == IF agent_history # <<>> THEN Last(agent_history)
                            ELSE "maven"
             node_text == IF outcome.has_result THEN outcome.text ELSE <<>>
             response_text == IF node_text = <<>> THEN SWARM_REPR
                              ELSE node_text
         IN  Returned([response |-> response_text, agent |-> final_agent,
                       handoffs |-> agent_history,
                       status |-> outcome.status])

\* _process_with_swarm(query); outcome: what self.swarm(swarm_query) does
_process_with_swarm(query, outcome) ==
    IF swarm = None
    THEN Returned([response |-> SWARM_NOT_INIT_TEXT, agent |-> "maven",
                   handoffs |-> <<>>, status |-> "error"])
    ELSE IF outcome.raises
    THEN Returned([response |-> SWARM_ERROR_PREFIX \o outcome.message,
                   agent |-> "maven", handoffs |-> <<>>,
                   status |-> "error"])
    ELSE LET agent_history == outcome.node_history
             final_agent == IF agent_history # <<>> THEN Last(agent_history)
                            ELSE "maven"
             node_text == IF outcome.has_result THEN outcome.text ELSE <<>>
             response_text == IF node_text = <<>> THEN SWARM_REPR
                              ELSE node_text
         IN  Returned([response |-> response_text, agent |-> final_agent,
                       handoffs |-> agent_history,
                       status |-> outcome.status])

_process_with_single_agent_reports_resolved(query, preferred_agent, outcome) ==
    LET agent_type == resolve_agent_type(query, preferred_agent)
        agent == cached_agent(agent_type)
    IN  IF agent = NoAgent
        THEN Returned([response |-> NO_AGENT_TEXT, agent |-> agent_type,
                       handoffs |-> <<>>, status |-> "error"])
        ELSE IF outcome.raises
        THEN Returned([response |-> AGENT_ERROR_PREFIX \o outcome.message,
                       agent |-> agent_type, handoffs |-> <<agent_type>>,
                       status |-> "error"])
        ELSE Returned([response |-> strip(outcome.text),
                       agent |-> agent_type, handoffs |-> <<agent_type>>,
                       status |-> "completed"])

\* _process_with_single_agent(query, preferred_agent);
\* outcome: what agent(query) does
_process_with_single_agent(query, preferred_agent, outcome) ==
    LET agent_type == resolve_agent_type(query, preferred_agent)
        agent == cached_agent(agent_type)
    IN  IF agent = NoAgent
        THEN Returned([response |-> NO_AGENT_TEXT, agent |-> "maven",
                       handoffs |-> <<>>, status |-> "error"])
        ELSE IF outcome.raises
        THEN Returned([response |-> AGENT_ERROR_PREFIX \o outcome.message,
                       agent |-> agent_type, handoffs |-> <<agent_type>>,
                       status |-> "error"])
        ELSE Returned([response |-> strip(outcome.text),
                       agent |-> agent_type, handoffs |-> <<agent_type>>,
                       status |-> "completed"])

-----------------------------------------------------------------------------
(* State *)

IdleCall ==
    [pc |-> "idle", kind |-> None, query |-> <<>>, preferred_agent |-> None,
     model_id |-> None, swarm_call |-> FALSE, exec_raised |-> FALSE,
     events |-> <<>>, result |-> [raised |-> FALSE],
     agent_type |-> None, agent |-> NoAgent, full_response |-> <<>>,
     swarm_result |-> [raised |-> FALSE], i |-> 0, nback |-> 0,
     build |-> "none", build_ok |-> TRUE,
     endpoint |-> None, req_use_swarm |-> FALSE, backend |-> <<>>,
     worker |-> "none"]

\* no __init__ has run yet
NotConstructed ==
    [req_use_swarm |-> FALSE, swarm_failed |-> FALSE, built |-> {},
     raised |-> FALSE, instances |-> 0]

\* _pool is None
NoPool == 0

\* coroutines that call into database.py
TaskIds == 1..NumTasks

IdleTask ==
    [pc |-> "idle", op |-> None, user_id |-> None, arg |-> None,
     pool |-> NoPool, result |-> None, after_logout |-> FALSE]

Users == { "u1", "u2" }

\* a user without a player_presence row
NoRow ==
    [exists |-> FALSE, session_token |-> None, status |-> None,
     logged_out |-> FALSE, revoked |-> {}]

\* before startup: no pool, empty tables
InitDb ==
    /\ _pool = NoPool
    /\ pools = [created |-> {}, closed |-> {}]
    /\ player_presence = [u \in Users |-> NoRow]
    /\ chat_sessions = <<>>
    /\ task = [t \in TaskIds |-> IdleTask]

InitCommon ==
    /\ InitDb
    /\ orchestrator_created = FALSE
    /\ use_swarm = FALSE
    /\ swarm = None
    /\ agents = <<>>
    /\ constructed_with = NotConstructed
    /\ call = [c \in CallIds |-> IdleCall]
    /\ rres = None
    /\ rprev = None
    /\ rcount = 0

Init ==
    /\ InitCommon
    /\ active = {1}
    /\ rq = <<>>

-----------------------------------------------------------------------------
(* Construction: get_orchestrator on first use runs __init__ *)

\* the agent create_agent(agent_type, self.tools) gives the agent map
default_agent(agent_type) ==
    [name |-> agent_type, model |-> get_model(None)]

AgentOrchestrator_init_keeps_use_swarm(req_use_swarm, swarm_ok, built) ==
    [raised |-> FALSE,
     use_swarm |-> req_use_swarm,
     swarm |-> IF req_use_swarm /\ swarm_ok THEN "Swarm" ELSE None,
     agents |-> IF req_use_swarm THEN <<>>
                ELSE [a \in built |-> default_agent(a)]]

AgentOrchestrator_init_all_or_nothing(req_use_swarm, swarm_ok, built) ==
    [raised |-> FALSE,
     use_swarm |-> (req_use_swarm /\ swarm_ok),
     swarm |-> IF req_use_swarm /\ swarm_ok THEN "Swarm" ELSE None,
     agents |-> IF req_use_swarm /\ swarm_ok THEN <<>>
                ELSE IF built = AGENT_IDS
                THEN [a \in built |-> default_agent(a)]
                ELSE <<>>]

AgentOrchestrator_init_swarm_error_escapes(req_use_swarm, swarm_ok, built) ==
    IF req_use_swarm /\ ~swarm_ok
    THEN [raised |-> TRUE, use_swarm |-> TRUE, swarm |-> None,
          agents |-> <<>>]
    ELSE [raised |-> FALSE,
          use_swarm |-> req_use_swarm,
          swarm |-> IF req_use_swarm THEN "Swarm" ELSE None,
          agents |-> IF req_use_swarm THEN <<>>
                     ELSE [a \in built |-> default_agent(a)]]

\* AgentOrchestrator.__init__(use_swarm); swarm_ok: create_swarm does not
\* raise; built: the personas whose create_agent does not raise
AgentOrchestrator_init(req_use_swarm, swarm_ok, built) ==
    [raised |-> FALSE,
     use_swarm |-> (req_use_swarm /\ swarm_ok),
     swarm |-> IF req_use_swarm /\ swarm_ok THEN "Swarm" ELSE None,
     agents |-> IF req_use_swarm /\ swarm_ok THEN <<>>
                ELSE [a \in built |-> default_agent(a)]]

\* _orchestrator = AgentOrchestrator(use_swarm=use_swarm)
construct_orchestrator_every_call(req_use_swarm, swarm_ok, built) ==
    /\ constructed_with.instances < 2
    /\ LET self == AgentOrchestrator_init(req_use_swarm, swarm_ok, built)
       IN  /\ orchestrator_created' = ~self.raised
           /\ use_swarm' = (~self.raised /\ self.use_swarm)
           /\ swarm' = IF self.raised THEN None ELSE self.swarm
           /\ agents' = IF self.raised THEN <<>> ELSE self.agents
           /\ constructed_with' =
                 [req_use_swarm |-> req_use_swarm,
                  swarm_failed |-> (req_use_swarm /\ ~swarm_ok),
                  built |-> IF req_use_swarm /\ swarm_ok THEN {} ELSE built,
                  raised |-> self.raised,
                  instances |-> constructed_with.instances + 1]

construct_orchestrator(req_use_swarm, swarm_ok, built) ==
    /\ ~orchestrator_created
    /\ LET self == AgentOrchestrator_init(req_use_swarm, swarm_ok, built)
       IN  /\ orchestrator_created' = ~self.raised
           /\ use_swarm' = (~self.raised /\ self.use_swarm)
           /\ swarm' = IF self.raised THEN None ELSE self.swarm
           /\ agents' = IF self.raised THEN <<>> ELSE self.agents
           /\ constructed_with' =
                 [req_use_swarm |-> req_use_swarm,
                  swarm_failed |-> (req_use_swarm /\ ~swarm_ok),
                  built |-> IF req_use_swarm /\ swarm_ok THEN {} ELSE built,
                  raised |-> self.raised,
                  instances |-> constructed_with.instances + 1]

\* get_orchestrator(use_swarm) while _orchestrator is None
get_orchestrator(req_use_swarm, swarm_ok, built) ==
    /\ construct_orchestrator(req_use_swarm, swarm_ok, built)
    /\ UNCHANGED <<active, call, route_vars, db_vars>>

-----------------------------------------------------------------------------
(* process_query *)

\* what the backend of the current mode may do with one call
BackendOutcomes == IF swarm_mode THEN SwarmOutcomes ELSE AgentOutcomes

process_query(c, query, preferred_agent) ==
    /\ orchestrator_created
    /\ c \in active
    /\ call[c].pc = "idle"
    /\ \E outcome \in BackendOutcomes :
       LET result == IF swarm_mode
                     THEN _process_with_swarm(query, outcome)
                     ELSE _process_with_single_agent(query, preferred_agent,
                                                     outcome)
           invoked == \/ swarm_mode
                      \/ cached_agent(resolve_agent_type(query,
                                          preferred_agent)) # NoAgent
       IN  call' = [call EXCEPT ![c] =
                [@ EXCEPT !.pc = "returned", !.kind = "process",
                          !.query = query,
                          !.preferred_agent = preferred_agent,
                          !.swarm_call = swarm_mode,
                          !.exec_raised = (invoked /\ outcome.raises),
                          !.agent_type =
                              IF swarm_mode THEN None
                              ELSE resolve_agent_type(query, preferred_agent),
                          !.agent =
                              IF swarm_mode THEN NoAgent
                              ELSE cached_agent(resolve_agent_type(query,
                                                    preferred_agent)),
                          !.result = result]]
    /\ UNCHANGED <<orch_vars, active, route_vars, db_vars>>

-----------------------------------------------------------------------------
(* stream_query: one action per event the generator yields *)

Emit(c, ev) == Append(call[c].events, ev)

\* the agent a single-mode stream_query call runs
stream_agent(agent_type, model_id, build_ok) ==
    IF ~Falsy(model_id) /\ model_id # DEFAULT_MODEL
    THEN LET built == create_agent(agent_type, model_id, build_ok)
         IN  IF built.raised THEN cached_agent(agent_type) ELSE built.agent
    ELSE cached_agent(agent_type)

\* how the per-call create_agent of stream_query went, if it was called
stream_build(agent_type, model_id, build_ok) ==
    IF ~Falsy(model_id) /\ model_id # DEFAULT_MODEL
    THEN IF create_agent(agent_type, model_id, build_ok).raised
         THEN "raised" ELSE "ok"
    ELSE "none"

stream_query_caches_agent(c, query, preferred_agent, model_id, build_ok) ==
    /\ orchestrator_created
    /\ c \in active
    /\ call[c].pc = "idle"
    /\ LET agent_type == resolve_agent_type(query, preferred_agent)
           agent == stream_agent(agent_type, model_id, build_ok)
           selected_model == IF Falsy(model_id) THEN DEFAULT_MODEL
                             ELSE model_id
           req == [call[c] EXCEPT !.kind = "stream", !.query = query,
                      !.preferred_agent = preferred_agent,
                      !.model_id = model_id, !.swarm_call = swarm_mode]
       IN  call' = [call EXCEPT ![c] =
             IF swarm_mode
             THEN [req EXCEPT !.pc = "swarm_huddle",
                      !.events = Emit(c, [type |-> "start",
                          agent |-> "maven", model |-> DEFAULT_MODEL,
                          swarm_mode |-> TRUE])]
             ELSE IF agent = NoAgent
             THEN [req EXCEPT !.pc = "finished",
                      !.agent_type = agent_type,
                      !.build = stream_build(agent_type, model_id, build_ok),
                      !.build_ok =
                          (build_ok \/ stream_build(agent_type, model_id,
                                                    build_ok) = "none"),
                      !.events = Emit(c, [type |-> "error",
                          message |-> NO_AGENT_TEXT, agent |-> "maven"])]
             ELSE [req EXCEPT !.pc = "streaming",
                      !.agent_type = agent_type, !.agent = agent,
                      !.build = stream_build(agent_type, model_id, build_ok),
                      !.build_ok =
                          (build_ok \/ stream_build(agent_type, model_id,
                                                    build_ok) = "none"),
                      !.events = Emit(c, [type |-> "start",
                          agent |-> agent_type,
                          model |-> selected_model])]]
    /\ agents' =
          LET agent_type == resolve_agent_type(query, preferred_agent)
          IN  IF ~swarm_mode
                   /\ stream_build(agent_type, model_id, build_ok) = "ok"
              THEN [a \in DOMAIN agents \cup {agent_type} |->
                       IF a = agent_type
                       THEN stream_agent(agent_type, model_id, build_ok)
                       ELSE agents[a]]
              ELSE agents
    /\ UNCHANGED <<orchestrator_created, use_swarm, swarm, constructed_with,
                   active, route_vars, db_vars>>

\* first step of the generator, up to its first yield
stream_query(c, query, preferred_agent, model_id, build_ok) ==
    /\ orchestrator_created
    /\ c \in active
    /\ call[c].pc = "idle"
    /\ LET agent_type == resolve_agent_type(query, preferred_agent)
           agent == stream_agent(agent_type, model_id, build_ok)
           selected_model == IF Falsy(model_id) THEN DEFAULT_MODEL
                             ELSE model_id
           req == [call[c] EXCEPT !.kind = "stream", !.query = query,
                      !.preferred_agent = preferred_agent,
                      !.model_id = model_id, !.swarm_call = swarm_mode]
       IN  call' = [call EXCEPT ![c] =
             IF swarm_mode
             THEN [req EXCEPT !.pc = "swarm_huddle",
                      !.events = Emit(c, [type |-> "start",
                          agent |-> "maven", model |-> DEFAULT_MODEL,
                          swarm_mode |-> TRUE])]
             ELSE IF agent = NoAgent
             THEN [req EXCEPT !.pc = "finished",
                      !.agent_type = agent_type,
                      !.build = stream_build(agent_type, model_id, build_ok),
                      !.build_ok =
                          (build_ok \/ stream_build(agent_type, model_id,
                                                    build_ok) = "none"),
                      !.events = Emit(c, [type |-> "error",
                          message |-> NO_AGENT_TEXT, agent |-> "maven"])]
             ELSE [req EXCEPT !.pc = "streaming",
                      !.agent_type = agent_type, !.agent = agent,
                      !.build = stream_build(agent_type, model_id, build_ok),
                      !.build_ok =
                          (build_ok \/ stream_build(agent_type, model_id,
                                                    build_ok) = "none"),
                      !.events = Emit(c, [type |-> "start",
                          agent |-> agent_type,
                          model |-> selected_model])]]
    /\ UNCHANGED <<orch_vars, active, route_vars, db_vars>>

stream_event_of_tool_first(event) ==
    IF /\ "current_tool_use" \in DOMAIN event
       /\ "name" \in DOMAIN event.current_tool_use
    THEN <<[type |-> "tool", tool |-> event.current_tool_use.name]>>
    ELSE IF "data" \in DOMAIN event
    THEN <<[type |-> "chunk", data |-> event.data]>>
    ELSE <<>>

\* the event the single-mode loop yields for one backend event, if any
stream_event_of(event) ==
    IF "data" \in DOMAIN event
    THEN <<[type |-> "chunk", data |-> event.data]>>
    ELSE IF /\ "current_tool_use" \in DOMAIN event
            /\ "name" \in DOMAIN event.current_tool_use
    THEN <<[type |-> "tool", tool |-> event.current_tool_use.name]>>
    ELSE <<>>

\* agent.stream_async(query) delivers one event
stream_async_event(c, event) ==
    /\ call[c].pc = "streaming"
    /\ call[c].nback < MaxBackendEvents
    /\ call' = [call EXCEPT ![c] =
          [@ EXCEPT !.nback = @ + 1,
                    !.backend = Append(@, event),
                    !.full_response =
                        IF "data" \in DOMAIN event THEN @ \o event.data
                        ELSE @,
                    !.events = @ \o stream_event_of(event)]]
    /\ UNCHANGED <<orch_vars, active, route_vars, db_vars>>

\* agent.stream_async(query) is exhausted: the completion event
stream_async_end(c) ==
    /\ call[c].pc = "streaming"
    /\ call' = [call EXCEPT ![c] =
          [@ EXCEPT !.pc = "finished",
                    !.events = Emit(c, [type |-> "done",
                        agent |-> call[c].agent_type,
                        response |-> call[c].full_response])]]
    /\ UNCHANGED <<orch_vars, active, route_vars, db_vars>>

stream_async_raise_keeps_streaming(c, message) ==
    /\ call[c].pc = "streaming"
    /\ call' = [call EXCEPT ![c] =
          [@ EXCEPT !.exec_raised = TRUE,
                    !.events = Emit(c, [type |-> "error",
                        message |-> message,
                        agent |-> call[c].agent_type])]]
    /\ UNCHANGED <<orch_vars, active, route_vars, db_vars>>

\* agent.stream_async(query) raises: the except branch
stream_async_raise(c, message) ==
    /\ call[c].pc = "streaming"
    /\ call' = [call EXCEPT ![c] =
          [@ EXCEPT !.pc = "finished", !.exec_raised = TRUE,
                    !.events = Emit(c, [type |-> "error",
                        message |-> message,
                        agent |-> call[c].agent_type])]]
    /\ UNCHANGED <<orch_vars, active, route_vars, db_vars>>

-----------------------------------------------------------------------------
(* _stream_with_swarm *)

\* the "Agents consulted" notice for a handoff list
RECURSIVE JoinWith(_, _)
JoinWith(parts, sep) ==
    IF parts = <<>> THEN <<>>
    ELSE IF Len(parts) = 1 THEN parts[1]
    ELSE parts[1] \o sep \o JoinWith(Tail(parts), sep)

RECURSIVE KnownAgents(_)
KnownAgents(handoffs) ==
    IF handoffs = <<>> THEN <<>>
    ELSE IF Head(handoffs) \in AGENT_IDS
    THEN <<Head(handoffs)>> \o KnownAgents(Tail(handoffs))
    ELSE KnownAgents(Tail(handoffs))

consulted_text(handoffs) ==
    LET known == KnownAgents(handoffs)
        labels == [k \in 1..Len(known) |->
                     AGENT_CONFIGS[known[k]].emoji \o <<" ">> \o
                     AGENT_CONFIGS[known[k]].name]
    IN  CONSULTED_PREFIX \o JoinWith(labels, CONSULTED_SEP) \o
        CONSULTED_SUFFIX

\* the huddle notice, yielded right after the start event
swarm_huddle(c) ==
    /\ call[c].pc = "swarm_huddle"
    /\ call' = [call EXCEPT ![c] =
          [@ EXCEPT !.pc = "swarm_run",
                    !.events = Emit(c, [type |-> "chunk",
                        data |-> HUDDLE_TEXT])]]
    /\ UNCHANGED <<orch_vars, active, route_vars, db_vars>>

\* run_in_executor(executor, self._process_with_swarm, query) completes
swarm_run(c) ==
    /\ call[c].pc = "swarm_run"
    /\ \E outcome \in SwarmOutcomes :
       LET result == _process_with_swarm(call[c].query, outcome)
       IN  call' = [call EXCEPT ![c] =
             IF result.raised
             THEN [@ EXCEPT !.pc = "finished", !.exec_raised = TRUE,
                      !.events = Emit(c, [type |-> "error",
                          message |-> result.message, agent |-> "maven"])]
             ELSE [@ EXCEPT !.pc = IF Len(result.handoffs) > 1
                                   THEN "swarm_consulted"
                                   ELSE "swarm_chunks",
                      !.exec_raised = outcome.raises,
                      !.swarm_result = result, !.i = 0]]
    /\ UNCHANGED <<orch_vars, active, route_vars, db_vars>>

\* the thread pool cannot run the call: the await raises
swarm_run_raise(c, message) ==
    /\ call[c].pc = "swarm_run"
    /\ call' = [call EXCEPT ![c] =
          [@ EXCEPT !.pc = "finished",
                    !.events = Emit(c, [type |-> "error",
                        message |-> message, agent |-> "maven"])]]
    /\ UNCHANGED <<orch_vars, active, route_vars, db_vars>>

\* the notice about agent participation
swarm_consulted(c) ==
    /\ call[c].pc = "swarm_consulted"
    /\ call' = [call EXCEPT ![c] =
          [@ EXCEPT !.pc = "swarm_chunks",
                    !.events = Emit(c, [type |-> "chunk",
                        data |-> consulted_text(
                            call[c].swarm_result.handoffs)])]]
    /\ UNCHANGED <<orch_vars, active, route_vars, db_vars>>

swarm_slice_overlapping(response_text, i) ==
    Slice(response_text, i, chunk_size + 1)

\* response_text[i : i + chunk_size]
swarm_slice(response_text, i) == Slice(response_text, i, chunk_size)

\* one pass of the re-chunking loop
swarm_chunk(c) ==
    /\ call[c].pc = "swarm_chunks"
    /\ call[c].i < Len(call[c].swarm_result.response)
    /\ call' = [call EXCEPT ![c] =
          [@ EXCEPT !.i = @ + chunk_size,
                    !.events = Emit(c, [type |-> "chunk",
                        data |-> swarm_slice(
                            call[c].swarm_result.response, call[c].i)])]]
    /\ UNCHANGED <<orch_vars, active, route_vars, db_vars>>

\* the loop is over: the completion event
swarm_done(c) ==
    /\ call[c].pc = "swarm_chunks"
    /\ call[c].i >= Len(call[c].swarm_result.response)
    /\ call' = [call EXCEPT ![c] =
          [@ EXCEPT !.pc = "finished",
                    !.events = Emit(c, [type |-> "done",
                        agent |-> call[c].swarm_result.agent,
                        response |-> call[c].swarm_result.response,
                        handoffs |-> call[c].swarm_result.handoffs])]]
    /\ UNCHANGED <<orch_vars, active, route_vars, db_vars>>

-----------------------------------------------------------------------------
(* The consumer of a stream_query sequence stops consuming it *)

\* where a generator that has yielded and has not finished can be
SuspendedPcs ==
    { "streaming", "swarm_huddle", "swarm_run", "swarm_consulted",
      "swarm_chunks" }

\* the generator is closed or its task cancelled: GeneratorExit and
\* CancelledError pass the "except Exception" clauses, so no further event is
\* produced. After the huddle notice the generator is either still at that
\* yield (at_await false) or inside "await loop.run_in_executor" (at_await
\* true), where the worker thread is running self._process_with_swarm and
\* leaving the "with ThreadPoolExecutor()" block waits for it.
abandon(c, at_await) ==
    /\ call[c].pc \in SuspendedPcs
    /\ call' = [call EXCEPT ![c] =
          [@ EXCEPT !.pc = "abandoned",
                    !.worker = IF call[c].pc = "swarm_run" /\ at_await
                               THEN "running" ELSE "none"]]
    /\ UNCHANGED <<orch_vars, active, route_vars, db_vars>>

\* the worker thread comes to the end of self._process_with_swarm(query)
worker_finishes(c) ==
    /\ call[c].worker = "running"
    /\ call' = [call EXCEPT ![c] = [@ EXCEPT !.worker = "done"]]
    /\ UNCHANGED <<orch_vars, active, route_vars, db_vars>>

-----------------------------------------------------------------------------
(* POST /route *)

InitRoute ==
    /\ InitCommon
    /\ active = {}
    /\ rq \in RouteQueries

\* route_query: one call of route_to_agent on the request's message
route_query ==
    /\ rcount < MaxRouteCalls
    /\ rres' = route_to_agent(rq)
    /\ rprev' = rres
    /\ rcount' = rcount + 1
    /\ UNCHANGED <<orch_vars, active, call, rq, db_vars>>

-----------------------------------------------------------------------------
(* server.py: startup and POST /chat *)

\* lifespan: get_orchestrator(use_swarm=False) before any request is served
lifespan(built) ==
    /\ \A c \in CallIds : call[c].pc = "idle"
    /\ get_orchestrator(FALSE, TRUE, built)

\* chat: get_orchestrator(use_swarm=request.use_swarm), which constructs the
\* singleton only when there is none, then process_query on it
chat(c, message, agent, req_use_swarm) ==
    /\ c \in active
    /\ call[c].pc = "idle"
    /\ \/ orchestrator_created /\ UNCHANGED orch_vars
       \/ \E swarm_ok \in BOOLEAN, built \in BuiltSets :
             construct_orchestrator(req_use_swarm, swarm_ok, built)
    /\ \E outcome \in BackendOutcomes' :
          call' = [call EXCEPT ![c] =
             [@ EXCEPT !.pc = "returned", !.kind = "process",
                       !.endpoint = "chat",
                       !.req_use_swarm = req_use_swarm,
                       !.query = message,
                       !.preferred_agent = agent,
                       !.swarm_call = swarm_mode',
                       !.exec_raised =
                           (outcome.raises /\
                            (swarm_mode \/ cached_agent(resolve_agent_type(
                                message, agent)) # NoAgent)'),
                       !.agent_type =
                           IF swarm_mode' THEN None
                           ELSE resolve_agent_type(message, agent),
                       !.agent =
                           IF swarm_mode' THEN NoAgent
                           ELSE cached_agent(resolve_agent_type(message,
                                                 agent))',
                       !.result =
                           IF swarm_mode'
                           THEN _process_with_swarm(message, outcome)'
                           ELSE _process_with_single_agent(message, agent,
                                                           outcome)']]
    /\ UNCHANGED <<active, route_vars, db_vars>>

-----------------------------------------------------------------------------
(* database.py: the connection pool *)

\* a coroutine is done with its call and can make another one
task_return(t) ==
    /\ task[t].pc \in { "done", "raised" }
    /\ task' = [task EXCEPT ![t] = IdleTask]
    /\ UNCHANGED <<app_vars, _pool, pools, player_presence, chat_sessions>>

\* get_pool up to its await: the test of _pool, and the return when set
get_pool_enter(t) ==
    /\ task[t].pc = "idle"
    /\ task' = [task EXCEPT ![t] =
          IF _pool = NoPool
          THEN [@ EXCEPT !.pc = "create_pool", !.op = "get_pool"]
          ELSE [@ EXCEPT !.pc = "done", !.op = "get_pool",
                         !.pool = _pool]]
    /\ UNCHANGED <<app_vars, _pool, pools, player_presence, chat_sessions>>

\* asyncpg.create_pool returns: the assignment to _pool and the return
get_pool_created(t) ==
    /\ task[t].pc = "create_pool"
    /\ Cardinality(pools.created) < MaxPools
    /\ LET new == Cardinality(pools.created) + 1
       IN  /\ _pool' = new
           /\ pools' = [pools EXCEPT !.created = @ \cup {new}]
           /\ task' = [task EXCEPT ![t] =
                 [@ EXCEPT !.pc = "done", !.pool = new]]
    /\ UNCHANGED <<app_vars, player_presence, chat_sessions>>

\* asyncpg.create_pool raises: the database cannot be reached
get_pool_raises(t) ==
    /\ task[t].pc = "create_pool"
    /\ task' = [task EXCEPT ![t] = [@ EXCEPT !.pc = "raised"]]
    /\ UNCHANGED <<app_vars, _pool, pools, player_presence, chat_sessions>>

\* close_pool up to the end of "await _pool.close()"
close_pool_enter(t) ==
    /\ task[t].pc = "idle"
    /\ IF _pool # NoPool
       THEN /\ pools' = [pools EXCEPT !.closed = @ \cup {_pool}]
            /\ task' = [task EXCEPT ![t] =
                  [@ EXCEPT !.pc = "closing", !.op = "close_pool"]]
       ELSE /\ pools' = pools
            /\ task' = [task EXCEPT ![t] =
                  [@ EXCEPT !.pc = "done", !.op = "close_pool"]]
    /\ UNCHANGED <<app_vars, _pool, player_presence, chat_sessions>>

\* close_pool after the await: _pool = None
close_pool_closed(t) ==
    /\ task[t].pc = "closing"
    /\ _pool' = NoPool
    /\ task' = [task EXCEPT ![t] = [@ EXCEPT !.pc = "done"]]
    /\ UNCHANGED <<app_vars, pools, player_presence, chat_sessions>>

-----------------------------------------------------------------------------
(* database.py: player_presence and the session token; one SQL statement
   per function, run on a connection of the pool *)

\* session_token of update_player_presence: NULL, empty, or a token
PresenceTokens == { None, "", "t1", "t2" }
\* session_token of create_user_with_session: never empty (server.py:469)
NewTokens == { "t1", "t2" }
\* session_token of validate_session and refresh_session
ValidateTokens == { "", "t1", "t2" }
ValidateUsers == { "", "u1" }
SessionUsers == { "u1" }
PresenceStatuses == { "online", "offline" }
SessionTasks == { 1 }

\* SQL COALESCE(a, b)
COALESCE(a, b) == IF a # None THEN a ELSE b

\* the row of player_presence for user_id matches session_token = $2
token_matches(user_id, session_token) ==
    /\ user_id \in Users
    /\ player_presence[user_id].exists
    /\ player_presence[user_id].session_token # None
    /\ session_token # None
    /\ player_presence[user_id].session_token = session_token

\* what validate_session(user_id, session_token) returns
validate_session_result(user_id, session_token) ==
    IF Falsy(user_id) \/ Falsy(session_token) THEN FALSE
    ELSE token_matches(user_id, session_token)

\* INSERT ... ON CONFLICT (user_id) DO UPDATE; a stored token ends the
\* logged-out period of the user
update_player_presence(user_id, status, session_token) ==
    /\ player_presence' = [player_presence EXCEPT ![user_id] =
          [@ EXCEPT !.exists = TRUE,
                    !.status = status,
                    !.session_token =
                        IF player_presence[user_id].exists
                        THEN COALESCE(session_token, @)
                        ELSE session_token,
                    !.logged_out = @ /\ session_token = None]]
    /\ UNCHANGED <<app_vars, _pool, pools, chat_sessions, task>>

set_player_offline(user_id) ==
    /\ player_presence' = [player_presence EXCEPT ![user_id] =
          IF @.exists THEN [@ EXCEPT !.status = "offline"] ELSE @]
    /\ UNCHANGED <<app_vars, _pool, pools, chat_sessions, task>>

\* a new user and its presence row with the session token
create_user_with_session(user_id, session_token) ==
    /\ ~player_presence[user_id].exists
    /\ player_presence' = [player_presence EXCEPT ![user_id] =
          [@ EXCEPT !.exists = TRUE, !.status = "online",
                    !.session_token = session_token,
                    !.logged_out = FALSE]]
    /\ UNCHANGED <<app_vars, _pool, pools, chat_sessions, task>>

refresh_session(user_id, session_token) ==
    /\ player_presence' = [player_presence EXCEPT ![user_id] =
          IF token_matches(user_id, session_token)
          THEN [@ EXCEPT !.status = "online"] ELSE @]
    /\ UNCHANGED <<app_vars, _pool, pools, chat_sessions, task>>

invalidate_session_status_only(user_id) ==
    /\ player_presence' = [player_presence EXCEPT ![user_id] =
          [(IF @.exists THEN [@ EXCEPT !.status = "offline"] ELSE @)
              EXCEPT !.logged_out = TRUE]]
    /\ UNCHANGED <<app_vars, _pool, pools, chat_sessions, task>>

\* UPDATE player_presence SET session_token = NULL, status = 'offline';
\* logged_out and revoked record that the logout has completed and which
\* tokens it took away
invalidate_session(user_id) ==
    /\ player_presence' = [player_presence EXCEPT ![user_id] =
          [(IF @.exists
            THEN [@ EXCEPT !.status = "offline", !.session_token = None]
            ELSE @)
              EXCEPT !.logged_out = TRUE,
                     !.revoked = IF player_presence[user_id].exists
                                    /\ player_presence[user_id].session_token
                                           # None
                                 THEN @ \cup { player_presence[user_id]
                                                   .session_token }
                                 ELSE @]]
    /\ UNCHANGED <<app_vars, _pool, pools, chat_sessions, task>>

\* validate_session called by coroutine t
validate_session(t, user_id, session_token) ==
    /\ task[t].pc = "idle"
    /\ task' = [task EXCEPT ![t] =
          [@ EXCEPT !.pc = "done", !.op = "validate_session",
                    !.user_id = user_id, !.arg = session_token,
                    !.result = validate_session_result(user_id,
                                                       session_token),
                    !.after_logout =
                        user_id \in Users /\
                        player_presence[user_id].logged_out]]
    /\ UNCHANGED <<app_vars, _pool, pools, player_presence, chat_sessions>>

-----------------------------------------------------------------------------
(* database.py: get_or_create_chat_session(user_id, "agent", agent_id) *)

ChatUsers == { "u1" }
ChatAgentIds == { "a1", "a2" }

\* positions of the active agent sessions of (user_id, agent_id)
agent_sessions(user_id, agent_id) ==
    { k \in 1..Len(chat_sessions) :
          /\ chat_sessions[k].user_id = user_id
          /\ chat_sessions[k].agent_id = agent_id
          /\ chat_sessions[k].type = "agent"
          /\ chat_sessions[k].is_active }

\* the SELECT: a row is found and returned, or the coroutine goes on to the
\* INSERT. No session has a message yet, so ORDER BY last_message_at DESC
\* NULLS LAST LIMIT 1 may give any of the matching rows.
get_or_create_chat_session_select(t, user_id, agent_id) ==
    /\ task[t].pc = "idle"
    /\ LET found == agent_sessions(user_id, agent_id)
           req == [task[t] EXCEPT !.op = "get_or_create_chat_session",
                      !.user_id = user_id, !.arg = agent_id]
       IN  IF found = {}
           THEN task' = [task EXCEPT ![t] = [req EXCEPT !.pc = "insert"]]
           ELSE \E k \in found :
                   task' = [task EXCEPT ![t] =
                      [req EXCEPT !.pc = "done",
                                  !.result = chat_sessions[k].id]]
    /\ UNCHANGED <<app_vars, _pool, pools, player_presence, chat_sessions>>

\* the INSERT ... RETURNING id of a coroutine that found no row
get_or_create_chat_session_insert(t) ==
    /\ task[t].pc = "insert"
    /\ Len(chat_sessions) < MaxChatSessions
    /\ LET id == Len(chat_sessions) + 1
       IN  /\ chat_sessions' = Append(chat_sessions,
                  [id |-> id, type |-> "agent",
                   user_id |-> task[t].user_id, agent_id |-> task[t].arg,
                   is_active |-> TRUE])
           /\ task' = [task EXCEPT ![t] =
                 [@ EXCEPT !.pc = "done", !.result = id]]
    /\ UNCHANGED <<app_vars, _pool, pools, player_presence>>

-----------------------------------------------------------------------------
(* The event loop: the handlers are coroutines of one thread *)

\* no handler is inside a blocking call on the event-loop thread
LoopFree == \A c \in CallIds : call[c].pc # "blocking"

\* chat and legacy_chat up to agent(query) or self.swarm(swarm_query), which
\* process_query calls on the event-loop thread: get_orchestrator, routing,
\* and the error result at once when there is no agent to call
handler_call_backend(c, endpoint, message, agent, req_use_swarm) ==
    /\ LoopFree
    /\ c \in active
    /\ call[c].pc = "idle"
    /\ \/ orchestrator_created /\ UNCHANGED orch_vars
       \/ \E swarm_ok \in BOOLEAN, built \in BuiltSets :
             construct_orchestrator(req_use_swarm, swarm_ok, built)
    /\ LET invoked == (swarm_mode \/ cached_agent(resolve_agent_type(
                           message, agent)) # NoAgent)'
           req == [call[c] EXCEPT !.kind = "process",
                      !.endpoint = endpoint,
                      !.req_use_swarm = req_use_swarm,
                      !.query = message,
                      !.preferred_agent = agent,
                      !.swarm_call = swarm_mode',
                      !.agent_type =
                          IF swarm_mode' THEN None
                          ELSE resolve_agent_type(message, agent),
                      !.agent =
                          IF swarm_mode' THEN NoAgent
                          ELSE cached_agent(resolve_agent_type(message,
                                                agent))']
       IN  call' = [call EXCEPT ![c] =
              IF invoked
              THEN [req EXCEPT !.pc = "blocking"]
              ELSE [req EXCEPT !.pc = "returned",
                       !.result = _process_with_single_agent(message, agent,
                                      [raises |-> FALSE, text |-> <<>>])']]
    /\ UNCHANGED <<active, route_vars, db_vars>>

\* POST /chat up to the backend call
chat_call_backend(c, message, agent, req_use_swarm) ==
    handler_call_backend(c, "chat", message, agent, req_use_swarm)

\* POST /api/aisdk up to the backend call
legacy_chat_call_backend(c, message, agent) ==
    /\ message # <<>>
    /\ handler_call_backend(c, "aisdk", message, agent, FALSE)

\* the backend call returns or raises; the handler builds its response
handler_backend_returns(c) ==
    /\ call[c].pc = "blocking"
    /\ \E outcome \in (IF call[c].swarm_call THEN SwarmOutcomes
                        ELSE AgentOutcomes) :
          call' = [call EXCEPT ![c] =
             [@ EXCEPT !.pc = "returned",
                       !.exec_raised = outcome.raises,
                       !.result =
                           IF call[c].swarm_call
                           THEN _process_with_swarm(call[c].query, outcome)
                           ELSE _process_with_single_agent(call[c].query,
                                    call[c].preferred_agent, outcome)]]
    /\ UNCHANGED <<orch_vars, active, route_vars, db_vars>>

-----------------------------------------------------------------------------
(* Specifications *)

Next ==
    \/ \E u \in BOOLEAN, ok \in BOOLEAN, built \in BuiltSets :
          get_orchestrator(u, ok, built)
    \/ \E c \in CallIds, q \in OrchQueries, p \in PreferredAgents :
          process_query(c, q, p)
    \/ \E c \in CallIds, q \in OrchQueries, p \in PreferredAgents,
          m \in ModelIds, ok \in BOOLEAN :
          stream_query(c, q, p, m, ok)
    \/ \E c \in CallIds, e \in BackendEvents : stream_async_event(c, e)
    \/ \E c \in CallIds : stream_async_end(c)
    \/ \E c \in CallIds, m \in ExcMessages : stream_async_raise(c, m)
    \/ \E c \in CallIds : swarm_huddle(c)
    \/ \E c \in CallIds : swarm_run(c)
    \/ \E c \in CallIds, m \in ExcMessages : swarm_run_raise(c, m)
    \/ \E c \in CallIds : swarm_consulted(c)
    \/ \E c \in CallIds : swarm_chunk(c)
    \/ \E c \in CallIds : swarm_done(c)

Spec == Init /\ [][Next]_vars

NextRoute ==
    \/ \E u \in BOOLEAN : get_orchestrator(u, TRUE, AGENT_IDS)
    \/ route_query

SpecRoute == InitRoute /\ [][NextRoute]_vars

NextServer ==
    \/ \E built \in BuiltSets : lifespan(built)
    \/ \E c \in CallIds, q \in OrchQueries, p \in PreferredAgents,
          u \in BOOLEAN :
          chat(c, q, p, u)

SpecServer == Init /\ [][NextServer]_vars

\* two calls, in any interleaving, on the single-mode orchestrator that
\* lifespan constructs
CallPair == { 1, 2 }
PairQueries == { <<"a", "d", "v", "s">> }
PairPreferred == { None, "wizard" }
PairModelIds == { None, "qwen/qwen-turbo" }
PairEvents == { [data |-> <<"a", "b">>] }
PairExcMessages == { <<"b", "o", "o", "m">> }

InitPair ==
    /\ InitCommon
    /\ active = CallPair
    /\ rq = <<>>

NextPair ==
    \/ \E built \in BuiltSets : lifespan(built)
    \/ \E c \in CallPair, q \in PairQueries, p \in PairPreferred :
          process_query(c, q, p)
    \/ \E c \in CallPair, q \in PairQueries, p \in PairPreferred,
          m \in PairModelIds, ok \in BOOLEAN :
          stream_query(c, q, p, m, ok)
    \/ \E c \in CallPair, e \in PairEvents : stream_async_event(c, e)
    \/ \E c \in CallPair : stream_async_end(c)
    \/ \E c \in CallPair, m \in PairExcMessages : stream_async_raise(c, m)

SpecPair == InitPair /\ [][NextPair]_vars

\* coroutines that get and close the connection pool
NextPool ==
    \/ \E t \in TaskIds : get_pool_enter(t)
    \/ \E t \in TaskIds : get_pool_created(t)
    \/ \E t \in TaskIds : get_pool_raises(t)
    \/ \E t \in TaskIds : close_pool_enter(t)
    \/ \E t \in TaskIds : close_pool_closed(t)
    \/ \E t \in TaskIds : task_return(t)

SpecPool == Init /\ [][NextPool]_vars

\* the session of one user: login, presence updates, logout, validation
NextSession ==
    \/ \E u \in SessionUsers, s \in PresenceStatuses,
          k \in PresenceTokens :
          update_player_presence(u, s, k)
    \/ \E u \in SessionUsers : set_player_offline(u)
    \/ \E u \in SessionUsers, k \in NewTokens :
          create_user_with_session(u, k)
    \/ \E u \in SessionUsers, k \in ValidateTokens :
          refresh_session(u, k)
    \/ \E u \in SessionUsers : invalidate_session(u)
    \/ \E t \in SessionTasks, u \in ValidateUsers, k \in ValidateTokens :
          validate_session(t, u, k)
    \/ \E t \in SessionTasks : task_return(t)

SpecSession == Init /\ [][NextSession]_vars

\* coroutines that open agent chat sessions
NextChatSession ==
    \/ \E t \in TaskIds, u \in ChatUsers, a \in ChatAgentIds :
          get_or_create_chat_session_select(t, u, a)
    \/ \E t \in TaskIds : get_or_create_chat_session_insert(t)
    \/ \E t \in TaskIds : task_return(t)

SpecChatSession == Init /\ [][NextChatSession]_vars

\* two chat requests, each asking for a mode, with or without the startup
\* initialisation before them
NextSingleton ==
    \/ \E built \in BuiltSets : lifespan(built)
    \/ \E c \in CallPair, q \in PairQueries, p \in PairPreferred,
          u \in BOOLEAN :
          chat(c, q, p, u)

SpecSingleton == InitPair /\ [][NextSingleton]_vars

\* the orchestrator with consumers that may stop consuming
NextCancel ==
    \/ Next
    \/ \E c \in CallIds, at_await \in BOOLEAN : abandon(c, at_await)
    \/ \E c \in CallIds : worker_finishes(c)

SpecCancel == Init /\ [][NextCancel]_vars

\* the steps of request c on the running server; a coroutine takes a step
\* only when the event-loop thread is free
LoopStep(c) ==
    \/ \E q \in PairQueries, p \in PairPreferred, u \in BOOLEAN :
          orchestrator_created /\ chat_call_backend(c, q, p, u)
    \/ \E q \in PairQueries, p \in PairPreferred :
          orchestrator_created /\ legacy_chat_call_backend(c, q, p)
    \/ handler_backend_returns(c)
    \/ \E q \in PairQueries, p \in PairPreferred, m \in PairModelIds,
          ok \in BOOLEAN :
          LoopFree /\ stream_query(c, q, p, m, ok)
    \/ \E e \in PairEvents : LoopFree /\ stream_async_event(c, e)
    \/ LoopFree /\ stream_async_end(c)
    \/ \E m \in PairExcMessages : LoopFree /\ stream_async_raise(c, m)

\* two requests on the server after its startup
NextLoop ==
    \/ \E built \in BuiltSets : lifespan(built)
    \/ \E c \in CallPair : LoopStep(c)

SpecLoop == InitPair /\ [][NextLoop]_vars

-----------------------------------------------------------------------------
(* Properties of stream_query and process_query, checked under Spec *)

IsStart(e) == e.type = "start"
IsChunk(e) == e.type = "chunk"
IsTerminal(e) == e.type \in { "done", "error" }

StreamCalls == { c \in CallIds : call[c].kind = "stream" }
ProcessCalls == { c \in CallIds : call[c].kind = "process" }

ChunkTexts(events) ==
    LET chunks == SelectSeq(events, IsChunk)
    IN  [k \in 1..Len(chunks) |-> chunks[k].data]

CeilDiv(n, d) == (n + d - 1) \div d

\* C1: every stream_query call produces a Start event first, and exactly
\* one Start event, also when no runtime agent is available.
C1_StartFirstAndOnce ==
    \A c \in StreamCalls :
        LET events == call[c].events
        IN  /\ events # <<>>
            /\ IsStart(events[1])
            /\ Cardinality({ k \in 1..Len(events) : IsStart(events[k]) }) = 1

\* C2: a terminal event (Done or Error) is never followed by another event,
\* and a stream_query call that has run to completion ends with one, so it
\* has exactly one terminal event.
C2_OneTerminalLast ==
    \A c \in StreamCalls :
        LET events == call[c].events
        IN  /\ \A k \in 1..Len(events) :
                  IsTerminal(events[k]) => k = Len(events)
            /\ call[c].pc = "finished" =>
                  events # <<>> /\ IsTerminal(Last(events))

\* a completed call whose backend raised after it had delivered a chunk
C2_Witness ==
    \E c \in StreamCalls :
        /\ call[c].pc = "finished"
        /\ Len(call[c].events) >= 3
        /\ IsChunk(call[c].events[2])
        /\ Last(call[c].events).type = "error"

\* a swarm-mode stream_query call that ended with Done
SwarmDoneCalls ==
    { c \in StreamCalls : /\ call[c].swarm_call
                          /\ call[c].pc = "finished"
                          /\ Last(call[c].events).type = "done" }

\* C3 as stated: in swarm-mode streaming the call emits ceil(L/50) Chunk
\* events and their texts, concatenated, are the full response.
C3_AllChunksAreTheResponse ==
    \A c \in SwarmDoneCalls :
        LET texts == ChunkTexts(call[c].events)
            response == call[c].swarm_result.response
        IN  /\ Len(texts) = CeilDiv(Len(response), chunk_size)
            /\ Concat(texts) = response

\* C3 amended: the call first emits the huddle notice and, when more than one
\* agent took part, the agents-consulted notice; the Chunk events after these
\* notices number ceil(L/50) and their texts, concatenated, are the full
\* response.
C3_ChunksAfterNoticesAreTheResponse ==
    \A c \in SwarmDoneCalls :
        LET texts == ChunkTexts(call[c].events)
            response == call[c].swarm_result.response
            handoffs == call[c].swarm_result.handoffs
            notices == IF Len(handoffs) > 1 THEN 2 ELSE 1
        IN  /\ Len(texts) = notices + CeilDiv(Len(response), chunk_size)
            /\ texts[1] = HUDDLE_TEXT
            /\ notices = 2 => texts[2] = consulted_text(handoffs)
            /\ Concat(SubSeq(texts, notices + 1, Len(texts))) = response

\* a response that needs a short last chunk, after both notices
C3_Witness ==
    \E c \in SwarmDoneCalls :
        /\ Len(call[c].swarm_result.response) = chunk_size + 1
        /\ Len(call[c].swarm_result.handoffs) > 1

\* C4: process_query returns, never raises; when the model backend or the
\* swarm engine raised, the result has status "error" and a non-empty text.
C4_ProcessQueryNeverRaises ==
    \A c \in ProcessCalls :
        call[c].pc = "returned" =>
            /\ ~call[c].result.raised
            /\ call[c].exec_raised =>
                  /\ call[c].result.status = "error"
                  /\ call[c].result.response # <<>>

\* the swarm engine raised an exception with an empty message
C4_Witness ==
    \E c \in ProcessCalls :
        /\ call[c].pc = "returned"
        /\ call[c].swarm_call
        /\ call[c].exec_raised
        /\ call[c].result.response = SWARM_ERROR_PREFIX

\* C5: a stream_query call whose model or swarm execution raised ends with
\* an Error event, never with Done.
C5_FailureEndsWithError ==
    \A c \in StreamCalls :
        (call[c].pc = "finished" /\ call[c].exec_raised) =>
            /\ Last(call[c].events).type = "error"
            /\ \A k \in 1..Len(call[c].events) :
                  call[c].events[k].type # "done"

\* C6: a single-mode process_query result has a handoff sequence of length 1
\* equal to [agent].
C6_SingleModeOneHandoff ==
    \A c \in ProcessCalls :
        (call[c].pc = "returned" /\ ~call[c].swarm_call) =>
            /\ ~call[c].result.raised
            /\ Len(call[c].result.handoffs) = 1
            /\ call[c].result.handoffs = <<call[c].result.agent>>

\* the override persona id of the call is not in the registry
UnknownOverride(c) ==
    /\ ~Falsy(call[c].preferred_agent)
    /\ call[c].preferred_agent \notin AGENT_IDS

\* C7: a single-mode call with an override persona id that is not in
\* AGENT_CONFIGS gives an error result (process_query: status "error";
\* stream_query: an Error terminal event) and does not raise.
C7_UnknownPersonaIsError ==
    \A c \in CallIds :
        (UnknownOverride(c) /\ ~call[c].swarm_call) =>
            /\ call[c].pc = "returned" =>
                  ~call[c].result.raised /\ call[c].result.status = "error"
            /\ call[c].pc = "finished" =>
                  Last(call[c].events).type = "error"

\* calls that took the single-mode path and got as far as choosing an agent
SingleCalls == { c \in CallIds : call[c].kind # None /\ ~call[c].swarm_call }

\* the persona a call resolves to: the override if given, else the route
ResolvedPersona(c) ==
    IF Falsy(call[c].preferred_agent) THEN route_to_agent(call[c].query)
    ELSE call[c].preferred_agent

\* the resolved persona has a runtime agent: in the map, or built for the call
HasOwnAgent(c) ==
    ResolvedPersona(c) \in DOMAIN agents \/ call[c].build = "ok"

\* C11 as stated: in single mode an override persona with a runtime agent is
\* the one dispatched to, whatever the route; a resolved persona without a
\* runtime agent is replaced by maven's agent.
C11_OverrideThenMaven ==
    \A c \in SingleCalls :
        /\ (~Falsy(call[c].preferred_agent) /\ HasOwnAgent(c)) =>
              call[c].agent.name = call[c].preferred_agent
        /\ ~HasOwnAgent(c) =>
              "maven" \in DOMAIN agents /\ call[c].agent = agents["maven"]

\* C11 amended: as stated, but the fallback to maven's agent happens when
\* maven's agent was built; when it was not, no agent is invoked and the call
\* gives an error result (process_query) or an Error event (stream_query).
C11_OverrideThenMavenIfBuilt ==
    \A c \in SingleCalls :
        /\ (~Falsy(call[c].preferred_agent) /\ HasOwnAgent(c)) =>
              call[c].agent.name = call[c].preferred_agent
        /\ (~HasOwnAgent(c) /\ "maven" \in DOMAIN agents) =>
              call[c].agent = agents["maven"]
        /\ (~HasOwnAgent(c) /\ "maven" \notin DOMAIN agents) =>
              /\ call[c].agent = NoAgent
              /\ call[c].kind = "process" =>
                    ~call[c].result.raised /\ call[c].result.status = "error"
              /\ call[c].kind = "stream" =>
                    call[c].events = <<[type |-> "error",
                        message |-> NO_AGENT_TEXT, agent |-> "maven"]>>

\* the override is sage while the query routes to scout
C11_Witness ==
    \E c \in SingleCalls :
        /\ call[c].preferred_agent = "sage"
        /\ route_to_agent(call[c].query) = "scout"
        /\ "sage" \in DOMAIN agents
        /\ call[c].agent = agents["sage"]

\* process_query calls that have returned a result
ReturnedCalls ==
    { c \in ProcessCalls : call[c].pc = "returned" /\ ~call[c].result.raised }

\* C12: in every process_query result the agent is a member of a non-empty
\* handoff sequence, and is "maven" when the handoff sequence is empty.
C12_FinalAgentInHandoffs ==
    \A c \in ReturnedCalls :
        LET handoffs == call[c].result.handoffs
        IN  /\ handoffs # <<>> =>
                  \E k \in 1..Len(handoffs) :
                      handoffs[k] = call[c].result.agent
            /\ handoffs = <<>> => call[c].result.agent = "maven"

\* a swarm result with several handoffs, and the last one not maven
C12_Witness ==
    \E c \in ReturnedCalls :
        /\ call[c].swarm_call
        /\ Len(call[c].result.handoffs) > 1
        /\ call[c].result.agent # "maven"

\* C13: every process_query result has status "completed" or "error", and a
\* swarm run that the engine ended by failure (raising, or returning a result
\* with its own failed status) is reported with status "error", in streaming
\* as a terminal Error event.
C13_StatusCompletedOrError ==
    /\ \A c \in ReturnedCalls :
          call[c].result.status \in { "completed", "error" }
    /\ \A c \in StreamCalls :
          (/\ call[c].swarm_call
           /\ call[c].pc = "finished"
           /\ \/ call[c].exec_raised
              \/ /\ "status" \in DOMAIN call[c].swarm_result
                 /\ call[c].swarm_result.status = "failed") =>
              Last(call[c].events).type = "error"

\* C14: when create_swarm raises in __init__(use_swarm = True) the
\* constructor returns normally, the orchestrator is in single mode with the
\* agents that could be built, and every call takes the single-mode path.
C14_SwarmFailureFallsBackToSingle ==
    constructed_with.swarm_failed =>
        /\ ~constructed_with.raised
        /\ orchestrator_created
        /\ ~use_swarm
        /\ swarm = None
        /\ DOMAIN agents = constructed_with.built
        /\ \A c \in CallIds :
              call[c].kind # None =>
                  /\ ~call[c].swarm_call
                  /\ call[c].agent_type # None

\* after the fallback a query is answered by a persona's own agent
C14_Witness ==
    /\ constructed_with.swarm_failed
    /\ \E c \in ReturnedCalls :
          /\ call[c].result.status = "completed"
          /\ call[c].agent.name = "scout"

\* C15: in single mode __init__ returns normally whatever builds fail, the
\* agent map holds exactly the personas whose build succeeded, a query
\* resolved to one of them is served by its agent, and with no persona built
\* every process_query returns status "error" without raising.
C15_BuildFailureIsConfined ==
    (orchestrator_created /\ ~use_swarm) =>
        /\ ~constructed_with.raised
        /\ DOMAIN agents = constructed_with.built
        /\ \A a \in DOMAIN agents :
              agents[a].name = a /\ agents[a].model = DEFAULT_MODEL
        /\ \A c \in SingleCalls :
              (ResolvedPersona(c) \in constructed_with.built
                    /\ call[c].build # "ok") =>
                  call[c].agent = agents[ResolvedPersona(c)]
        /\ constructed_with.built = {} =>
              \A c \in ProcessCalls :
                  call[c].pc = "returned" =>
                      /\ ~call[c].result.raised
                      /\ call[c].result.status = "error"

\* sage's build failed, scout's did not and scout answers a query
C15_Witness ==
    /\ "sage" \notin constructed_with.built
    /\ \E c \in ReturnedCalls :
          /\ ~call[c].swarm_call
          /\ call[c].result.status = "completed"
          /\ call[c].agent.name = "scout"

\* C16: create_agent with no model id (the agent map) or with a model id
\* outside AI_MODELS gives an agent bound to DEFAULT_MODEL, with a model id
\* inside AI_MODELS an agent bound to that model; it raises only for an
\* unregistered persona or a failing environment, never for the model id.
C16_UnknownModelDegradesToDefault ==
    /\ \A a \in DOMAIN agents : agents[a].model = DEFAULT_MODEL
    /\ \A c \in SingleCalls :
          /\ call[c].build = "ok" =>
                /\ call[c].agent.name = call[c].agent_type
                /\ call[c].agent.model =
                      IF call[c].model_id \in AI_MODELS
                      THEN call[c].model_id ELSE DEFAULT_MODEL
          /\ call[c].build = "raised" =>
                \/ ~call[c].build_ok
                \/ call[c].agent_type \notin AGENT_IDS

\* a per-call agent built for a model id that is not in the catalog
C16_Witness ==
    \E c \in SingleCalls :
        /\ call[c].build = "ok"
        /\ call[c].model_id = "bogus/model"
        /\ call[c].agent.model = DEFAULT_MODEL

\* POST /chat requests that have been answered
ChatCalls ==
    { c \in CallIds : call[c].endpoint = "chat" /\ call[c].pc = "returned" }

\* C17: a chat request with use_swarm = true is processed by the swarm and
\* one with use_swarm = false by a single agent, whoever obtained the
\* orchestrator first (a swarm that could not be constructed, C14, is left
\* out of the statement).
C17_RequestChoosesMode ==
    \A c \in ChatCalls :
        /\ (call[c].req_use_swarm /\ ~constructed_with.swarm_failed) =>
              call[c].swarm_call
        /\ ~call[c].req_use_swarm => ~call[c].swarm_call

\* calls that were given no model id, or the default one
DefaultModelCalls ==
    { c \in SingleCalls :
          Falsy(call[c].model_id) \/ call[c].model_id = DEFAULT_MODEL }

\* C19: after construction no step of any interleaving of process_query and
\* stream_query calls changes the agent map, stream_query calls that build a
\* per-call agent for a non-default model id included, and a call without a
\* model id that invokes an agent invokes one built at construction with the
\* default model.
C19_AgentMapNeverMutated ==
    /\ [][orchestrator_created => agents' = agents]_vars
    /\ [](\A c \in DefaultModelCalls :
              call[c].agent # NoAgent =>
                  /\ call[c].agent.name \in constructed_with.built
                  /\ call[c].agent = default_agent(call[c].agent.name)
                  /\ call[c].agent.model = DEFAULT_MODEL)

\* one call streamed from a per-call sage agent on another model to its end,
\* the other call is served without model id by the sage agent of the map
C19_Witness ==
    \E c1 \in StreamCalls, c2 \in DefaultModelCalls :
        /\ call[c1].pc = "finished"
        /\ call[c1].build = "ok"
        /\ call[c1].agent = [name |-> "sage", model |-> "qwen/qwen-turbo"]
        /\ call[c2].model_id = None
        /\ call[c2].agent = default_agent("sage")
        /\ "sage" \in DOMAIN agents
        /\ agents["sage"] = default_agent("sage")

\* C18: once constructed, use_swarm holds exactly when there is a swarm
\* handle, the agent map is populated only with use_swarm false, and no step
\* of a process_query or stream_query call changes use_swarm or the handle.
C18_ModeFixedAndExclusive ==
    /\ [](orchestrator_created =>
            /\ use_swarm <=> swarm # None
            /\ use_swarm => agents = <<>>)
    /\ [][orchestrator_created =>
            use_swarm' = use_swarm /\ swarm' = swarm]_vars

\* a swarm-mode orchestrator that has served a streamed call to its end
C18_Witness ==
    /\ orchestrator_created
    /\ use_swarm
    /\ swarm # None
    /\ \E c \in StreamCalls : call[c].pc = "finished"

\* C20: in single mode the agent id of a process_query result, and of every
\* Start and Done event of stream_query, is the id of the persona whose
\* runtime agent was invoked for the call, also when that agent is maven's,
\* used because the resolved persona had no built agent.
C20_ReportedAgentIsInvoked ==
    \A c \in SingleCalls :
        call[c].agent # NoAgent =>
            /\ (call[c].kind = "process" /\ call[c].pc = "returned"
                    /\ ~call[c].result.raised) =>
                  call[c].result.agent = call[c].agent.name
            /\ call[c].kind = "stream" =>
                  \A k \in 1..Len(call[c].events) :
                      call[c].events[k].type \in { "start", "done" } =>
                          call[c].events[k].agent = call[c].agent.name

\* stream_query calls whose sequence ended with a Done event
DoneCalls ==
    { c \in StreamCalls :
          call[c].pc = "finished" /\ Last(call[c].events).type = "done" }

\* C21: the Done event of a call carries the complete response text and the
\* handoff sequence: in swarm mode the response and the handoffs of the swarm
\* run, in single mode the accumulated text and the handoffs <<agent>>.
C21_DoneCarriesTextAndHandoffs ==
    \A c \in DoneCalls :
        LET done == Last(call[c].events)
        IN  /\ "response" \in DOMAIN done
            /\ "handoffs" \in DOMAIN done
            /\ call[c].swarm_call =>
                  /\ done.response = call[c].swarm_result.response
                  /\ done.handoffs = call[c].swarm_result.handoffs
            /\ ~call[c].swarm_call =>
                  /\ done.response = call[c].full_response
                  /\ done.handoffs = <<done.agent>>

\* C22: the model id of the Start event of a single-mode stream_query call
\* is the model the agent serving the call is bound to, also when the model
\* id of the call is not in the catalog and when the per-call build failed.
C22_StartModelIsAgentModel ==
    \A c \in SingleCalls :
        (/\ call[c].kind = "stream"
         /\ call[c].agent # NoAgent
         /\ call[c].events # <<>>
         /\ call[c].events[1].type = "start") =>
            call[c].events[1].model = call[c].agent.model

HasData(event) == "data" \in DOMAIN event

\* the text of the backend events delivered so far that carry data
BackendTexts(c) ==
    LET texts == SelectSeq(call[c].backend, HasData)
    IN  [k \in 1..Len(texts) |-> texts[k].data]

\* C23: at every point of a single-mode stream the Chunk events emitted are,
\* one for one and in order, the data of the backend events delivered so
\* far, and the response of the Done event is the concatenation of the text
\* of all Chunk events of the call.
C23_ChunksFollowBackendEvents ==
    \A c \in StreamCalls :
        (~call[c].swarm_call /\ call[c].agent # NoAgent) =>
            /\ ChunkTexts(call[c].events) = BackendTexts(c)
            /\ (call[c].pc = "finished"
                    /\ Last(call[c].events).type = "done") =>
                  Last(call[c].events).response =
                      Concat(ChunkTexts(call[c].events))

\* two data events, the second also announcing a tool, then the Done event
C23_Witness ==
    \E c \in DoneCalls :
        /\ ~call[c].swarm_call
        /\ Len(BackendTexts(c)) = 2
        /\ \E k \in 1..Len(call[c].backend) :
              "current_tool_use" \in DOMAIN call[c].backend[k]
                  /\ HasData(call[c].backend[k])
        /\ Last(call[c].events).response # <<>>

\* a request that is waiting for the model backend
WaitingForBackend(c) == call[c].pc \in { "blocking", "streaming" }

\* a request that has not been answered to its end
Unfinished(c) == call[c].pc \notin { "returned", "finished" }

\* C24: while a request waits for a response of the model backend, every
\* other request that is not finished can take its next step.
C24_BackendCallsSuspend ==
    \A c \in CallPair :
        WaitingForBackend(c) =>
            \A d \in CallPair \ {c} :
                Unfinished(d) => ENABLED LoopStep(d)

\* what one stream_query call owes to its own inputs only: the events after
\* the start are its own backend events, the response of its Done event is
\* its own text, its persona is resolved from its own query and override,
\* and its agent from its own model id
OwnEventsOnly(c) ==
    LET events == call[c].events
    IN  /\ \A k \in 1..Len(events) :
              IsTerminal(events[k]) => k = Len(events)
        /\ call[c].pc = "finished" =>
              events # <<>> /\ IsTerminal(Last(events))
        /\ ChunkTexts(events) = BackendTexts(c)
        /\ (events # <<>> /\ Last(events).type = "done") =>
              Last(events).response = Concat(BackendTexts(c))
        /\ call[c].agent_type =
              resolve_agent_type(call[c].query, call[c].preferred_agent)
        /\ call[c].agent =
              stream_agent(call[c].agent_type, call[c].model_id,
                           call[c].build_ok)

\* C25: under every interleaving of two stream_query calls on the shared
\* orchestrator each call's event sequence keeps the ordering contract (one
\* Start event, first; one terminal event, last), its Chunk and Done events
\* hold only text of its own backend events, and its persona and agent are
\* those of its own override and model id.
C25_ConcurrentStreamsIndependent ==
    \A c \in StreamCalls :
        /\ call[c].events # <<>>
        /\ IsStart(call[c].events[1])
        /\ Cardinality({ k \in 1..Len(call[c].events) :
                            IsStart(call[c].events[k]) }) = 1
        /\ OwnEventsOnly(c)

\* C25 without the Start event: what holds of two interleaved calls
C25_IndependentFromTheOtherCall ==
    \A c \in StreamCalls : OwnEventsOnly(c)

\* C26: once the consumer has abandoned a stream_query sequence no backend
\* work of that call is running, in single mode and in swarm mode.
C26_NoWorkAfterAbandon ==
    \A c \in StreamCalls :
        call[c].pc = "abandoned" => call[c].worker # "running"

\* C27: at most one AgentOrchestrator is constructed, and once there is one
\* no request replaces or changes it, whatever use_swarm it asks for.
C27_OneOrchestrator ==
    /\ [](constructed_with.instances <= 1)
    /\ [](orchestrator_created <=> constructed_with.instances = 1)
    /\ [][orchestrator_created =>
            /\ orchestrator_created'
            /\ UNCHANGED <<use_swarm, swarm, agents, constructed_with>>]_vars

\* two answered chat requests that asked for different modes
C27_Witness ==
    \E c1 \in ChatCalls, c2 \in ChatCalls :
        /\ call[c1].req_use_swarm
        /\ ~call[c2].req_use_swarm
        /\ call[c1].swarm_call = call[c2].swarm_call
        /\ constructed_with.instances = 1

-----------------------------------------------------------------------------
(* Properties of database.py *)

\* pools that were created and not closed
OpenPools == pools.created \ pools.closed

\* C28: there is at most one open connection pool, it is the one _pool
\* refers to, and every get_pool call that has returned received it.
C28_OnePool ==
    /\ \A p \in OpenPools : _pool = p
    /\ \A t \in TaskIds :
          (task[t].op = "get_pool" /\ task[t].pc = "done") =>
              task[t].pool \in pools.closed \/ task[t].pool = _pool

\* C29: from the end of invalidate_session(u) until a session token is
\* stored for u, validate_session(u, t) is false for every token t, the one
\* that was valid before and the empty one included, whatever presence
\* updates without a token are made in between.
C29_LogoutInvalidatesEveryToken ==
    /\ \A u \in Users :
          player_presence[u].logged_out =>
              \A k \in ValidateTokens : ~validate_session_result(u, k)
    /\ \A t \in TaskIds :
          (task[t].op = "validate_session" /\ task[t].after_logout) =>
              task[t].result = FALSE

\* the token taken away by the logout is validated after a presence update
\* without token has set the user online again
C29_Witness ==
    \E t \in TaskIds :
        /\ task[t].op = "validate_session"
        /\ task[t].after_logout
        /\ task[t].user_id \in Users
        /\ task[t].arg \in player_presence[task[t].user_id].revoked
        /\ player_presence[task[t].user_id].status = "online"
        /\ player_presence[task[t].user_id].logged_out

\* get_or_create_chat_session calls that have returned
SessionCalls ==
    { t \in TaskIds : /\ task[t].op = "get_or_create_chat_session"
                      /\ task[t].pc = "done" }

\* C30: a (user, agent) pair has at most one active agent chat session, and
\* the get_or_create_chat_session calls for the pair return the same id.
C30_OneAgentSessionPerPair ==
    /\ \A u \in ChatUsers, a \in ChatAgentIds :
          Cardinality(agent_sessions(u, a)) <= 1
    /\ \A t1 \in SessionCalls, t2 \in SessionCalls :
          (task[t1].user_id = task[t2].user_id
              /\ task[t1].arg = task[t2].arg) =>
              task[t1].result = task[t2].result

-----------------------------------------------------------------------------
(* Properties of route_to_agent, checked under SpecRoute *)

\* kw occurs in s at some offset, character by character
OccursIn(kw, s) ==
    \E off \in 0..(Len(s) - Len(kw)) :
        \A k \in 1..Len(kw) : s[off + k] = kw[k]

KEYWORD_GROUPS ==
    <<RESEARCH_KEYWORDS, ANALYSIS_KEYWORDS, WRITING_KEYWORDS,
      TRENDS_KEYWORDS, BUSINESS_KEYWORDS>>

GROUP_PERSONA == <<"scout", "sage", "chronicle", "trends", "gandalfius">>

\* the groups with a keyword occurring in the lower-cased message
MatchingGroups(q) ==
    { g \in 1..5 : \E kw \in KEYWORD_GROUPS[g] : OccursIn(kw, lower(q)) }

\* C8: route_to_agent returns the persona of the first group, in the order
\* research, analysis, writing/news, trends, business, that has a keyword
\* occurring as a substring of the lower-cased query.
C8_FirstMatchingGroupWins ==
    (rres # None /\ MatchingGroups(rq) # {}) =>
        \E g \in MatchingGroups(rq) :
            /\ \A h \in MatchingGroups(rq) : g <= h
            /\ rres = GROUP_PERSONA[g]

\* "vs" inside a longer word, together with a writing keyword: sage
C8_Witness ==
    /\ rres = "sage"
    /\ MatchingGroups(rq) = { 2, 3 }
    /\ OccursIn(<<"a", "d", "v", "s">>, rq)

\* C9: route_to_agent returns "maven" exactly when no keyword of any group
\* occurs in the lower-cased query.
C9_MavenIffNoMatch ==
    rres # None => (rres = "maven" <=> MatchingGroups(rq) = {})

\* a non-empty message without any keyword
C9_Witness ==
    /\ rres = "maven"
    /\ rq # <<>>
    /\ MatchingGroups(rq) = {}

====
